---- MODULE Spec2Model ----
(***************************************************************************)
(* Model of the two batch jobs of job-tracker-automation:                  *)
(*   - the Reply Classifier   (src/unnamed/part_000, lines 1-320)          *)
(*   - the Job Status Checker (src/unnamed/part_000, lines 323-534)        *)
(*                                                                         *)
(* Text is modelled as a sequence of tokens.  A token is one character     *)
(* ("a", ".", " ", "<", ...) or one keyword or word whose inner letters    *)
(* play no role ("domain:", "threadId:", "REJECTION", ...).  Case          *)
(* conversion, trimming, substring search and the domain regular           *)
(* expression are computed on these sequences.                             *)
(***************************************************************************)
EXTENDS Integers, Sequences, FiniteSets, TLC

\* ------------------------------------------------------------------ bounds
\* Largest number of cards a list fetch returns.
MaxCards == 2
\* Largest number of unread messages the Gmail list returns.
MaxEmails == 2
\* Largest number of tokens in an AI answer (pure-function specifications).
MaxContentLen == 3

\* ------------------------------------------------------------ text helpers
Whitespace == {" ", "\n"}

\* String.prototype.toLowerCase, token by token.
LowerTok(t) ==
    CASE t = "A" -> "a"
      [] t = "B" -> "b"
      [] t = "H" -> "h"
      [] t = "M" -> "m"
      [] t = "X" -> "x"
      [] t = "DOMAIN:" -> "domain:"
      [] t = "Domain:" -> "domain:"
      [] t = "threadId:" -> "threadid:"
      [] OTHER -> t

\* String.prototype.toUpperCase, token by token.
UpperTok(t) ==
    CASE t = "rejection" -> "REJECTION"
      [] t = "Offer" -> "OFFER"
      [] t = "other_reply" -> "OTHER_REPLY"
      [] t = "hr_interview" -> "HR_INTERVIEW"
      [] t = "active" -> "ACTIVE"
      [] t = "deleted" -> "DELETED"
      [] t = "Deleted" -> "DELETED"
      [] OTHER -> t

toLowerCase(s) == [i \in 1..Len(s) |-> LowerTok(s[i])]

toUpperCase(s) == [i \in 1..Len(s) |-> UpperTok(s[i])]

\* String.prototype.includes: t occurs in s as a contiguous substring.
includes(s, t) ==
    \E i \in 0..(Len(s) - Len(t)) : SubSeq(s, i + 1, i + Len(t)) = t

\* String.prototype.trim: strips leading and trailing whitespace.
trim(s) ==
    LET nonWs == {i \in 1..Len(s) : s[i] \notin Whitespace}
    IN  IF nonWs = {} THEN <<>>
        ELSE SubSeq(s, CHOOSE i \in nonWs : \A j \in nonWs : i <= j,
                       CHOOSE i \in nonWs : \A j \in nonWs : j <= i)

\* Array.prototype.find, given the positions whose element satisfies the
\* callback: the first of them, 0 when there is none.
FirstOf(hits) ==
    IF hits = {} THEN 0 ELSE CHOOSE i \in hits : \A j \in hits : i <= j

\* ------------------------------------------------- sender address, domain
\* fromHeader.match(/<([^>]+)>/)?.[1] || fromHeader.trim()
\* The leftmost "<" that is followed by at least one non-">" token and then
\* a ">" starts the match; the capture runs to the first ">" after it.
AngleStarts(h) ==
    {i \in 1..Len(h) :
        /\ h[i] = "<"
        /\ \E j \in (i + 2)..Len(h) :
              /\ h[j] = ">"
              /\ \A k \in (i + 1)..(j - 1) : h[k] # ">"}

fromEmailOf(h) ==
    IF AngleStarts(h) = {} THEN trim(h)
    ELSE LET i == CHOOSE a \in AngleStarts(h) : \A b \in AngleStarts(h) : a <= b
             j == CHOOSE c \in (i + 2)..Len(h) :
                      /\ h[c] = ">"
                      /\ \A k \in (i + 1)..(c - 1) : h[k] # ">"
         IN  SubSeq(h, i + 1, j - 1)

\* fromEmail.includes('@') ? fromEmail.split('@')[1].toLowerCase() : null
\* split('@')[1] is the text between the first "@" and the next "@" (or the
\* end).  null and the empty string are both falsy: both are <<>> here.
domainOf(fromEmail) ==
    LET ats == {i \in 1..Len(fromEmail) : fromEmail[i] = "@"}
    IN  IF ats = {} THEN <<>>
        ELSE LET a == CHOOSE i \in ats : \A j \in ats : i <= j
                 later == {i \in ats : i > a}
                 b == IF later = {} THEN Len(fromEmail) + 1
                      ELSE CHOOSE i \in later : \A j \in later : i <= j
             IN  toLowerCase(SubSeq(fromEmail, a + 1, b - 1))

\* --------------------------------------------------- the domain regex
\* One element of the pattern built from the domain against one token of
\* the description, under the 'i' flag.  domain.replace(/\./g, '\\.') makes
\* every "." of the domain a literal dot.
UnescapedPatTokMatches(p, d) == p = "." \/ LowerTok(p) = LowerTok(d)

PatTokMatches(p, d) == LowerTok(p) = LowerTok(d)

\* The literal domain `dom` matches the description at position pos.
LitAt(desc, pos, dom) ==
    /\ pos + Len(dom) - 1 <= Len(desc)
    /\ \A k \in 1..Len(dom) : PatTokMatches(dom[k], desc[pos + k - 1])

\* (${escapedDomain}|\[${escapedDomain}\]) at position pos.
AltAt(desc, pos, dom) ==
    \/ LitAt(desc, pos, dom)
    \/ /\ pos + Len(dom) + 1 <= Len(desc)
       /\ desc[pos] = "["
       /\ LitAt(desc, pos + 1, dom)
       /\ desc[pos + Len(dom) + 1] = "]"

\* new RegExp(`domain:\\s*(D|\\[D\\])`, 'i').test(desc): some position holds
\* the keyword in any case, then any run of whitespace, then the alternative.
domainRegexTest(desc, dom) ==
    \E k \in 1..Len(desc) :
        /\ LowerTok(desc[k]) = "domain:"
        /\ \E w \in 0..(Len(desc) - k) :
              /\ \A q \in 1..w : desc[k + q] \in Whitespace
              /\ AltAt(desc, k + w + 1, dom)

\* ----------------------------------------------------------- card matcher
NoCard == 0

\* `threadId: ${emailThreadId}`
threadIdToMatch(emailThreadId) == <<"threadId:", " ">> \o emailThreadId

\* Line 239: trelloCards.find(card => card.desc && card.desc.includes(...))
ThreadFind(cards, emailThreadId) ==
    FirstOf({i \in 1..Len(cards) :
                /\ cards[i].desc # <<>>
                /\ includes(cards[i].desc, threadIdToMatch(emailThreadId))})

\* Line 246: trelloCards.find(card => card.desc && domainRegex.test(card.desc))
DomainFind(cards, dom) ==
    FirstOf({i \in 1..Len(cards) :
                cards[i].desc # <<>> /\ domainRegexTest(cards[i].desc, dom)})

\* A mutant: the domain is tried before the thread id.
MatchCardDomainFirst(cards, emailThreadId, fromHeader) ==
    LET dom == domainOf(fromEmailOf(fromHeader))
        byDomain == IF dom # <<>> THEN DomainFind(cards, dom) ELSE 0
        byThread == IF byDomain = 0 /\ emailThreadId # <<>>
                    THEN ThreadFind(cards, emailThreadId) ELSE 0
    IN  IF byDomain # 0 THEN [idx |-> byDomain, method |-> "Domain"]
        ELSE IF byThread # 0 THEN [idx |-> byThread, method |-> "Thread ID"]
        ELSE [idx |-> 0, method |-> ""]

\* Lines 232-248: thread id first, then the sender domain.  The result is
\* the position of the matching card in `cards` (0: none) and matchMethod.
MatchCard(cards, emailThreadId, fromHeader) ==
    LET dom == domainOf(fromEmailOf(fromHeader))
        byThread == IF emailThreadId # <<>>
                    THEN ThreadFind(cards, emailThreadId) ELSE 0
        byDomain == IF byThread = 0 /\ dom # <<>>
                    THEN DomainFind(cards, dom) ELSE 0
    IN  IF byThread # 0 THEN [idx |-> byThread, method |-> "Thread ID"]
        ELSE IF byDomain # 0 THEN [idx |-> byDomain, method |-> "Domain"]
        ELSE [idx |-> 0, method |-> ""]

\* ------------------------------------------------------------ AI functions
categories ==
    {"INITIAL_INTERVIEW", "CODING_CHALLENGE", "TECHNICAL_INTERVIEW",
     "HR_INTERVIEW", "REJECTION", "OFFER", "OTHER_REPLY"}

\* What groq.chat.completions.create can do: reject ("throw"), resolve with
\* an empty choices array ("nochoices"), with a message whose content is
\* null ("nullcontent"), or with a text ("content").
Throws == [kind |-> "throw", content |-> <<>>]
NoChoices == [kind |-> "nochoices", content |-> <<>>]
NullContent == [kind |-> "nullcontent", content |-> <<>>]
Answer(text) == [kind |-> "content", content |-> text]

\* response.choices[0].message.content.trim().toUpperCase(): every response
\* but a text one raises inside the try block.
Raises(resp) == resp.kind # "content"

classificationOf(resp) == toUpperCase(trim(resp.content))

\* Lines 94-106, the body of the try block.  [threw, value].
ClassifyTry(resp) ==
    IF Raises(resp) THEN [threw |-> TRUE, value |-> "none"]
    ELSE IF \E c \in categories : classificationOf(resp) = <<c>>
         THEN [threw |-> FALSE, value |-> classificationOf(resp)[1]]
         ELSE [threw |-> FALSE, value |-> "OTHER_REPLY"]

\* A mutant: the answer is returned without the membership test.
classifyEmailWithAINoCheck(client, resp) ==
    IF ~client THEN [threw |-> FALSE, value |-> "OTHER_REPLY"]
    ELSE IF Raises(resp) THEN [threw |-> FALSE, value |-> "OTHER_REPLY"]
    ELSE IF classificationOf(resp) = <<>> THEN [threw |-> FALSE, value |-> ""]
    ELSE [threw |-> FALSE, value |-> classificationOf(resp)[1]]

\* Lines 85-111.  client: the module-level groq handle is set.
classifyEmailWithAI(client, resp) ==
    IF ~client THEN [threw |-> FALSE, value |-> "OTHER_REPLY"]
    ELSE IF ClassifyTry(resp).threw
         THEN [threw |-> FALSE, value |-> "OTHER_REPLY"]
         ELSE ClassifyTry(resp)

\* A mutant: an unexpected answer counts as deleted.
checkJobStatusWithAIUnsafe(client, resp) ==
    IF ~client THEN [threw |-> FALSE, value |-> TRUE]
    ELSE IF Raises(resp) THEN [threw |-> FALSE, value |-> TRUE]
    ELSE [threw |-> FALSE, value |-> classificationOf(resp) = <<"ACTIVE">>]

\* Lines 351-395.  value: TRUE for "still active".
checkJobStatusWithAI(client, resp) ==
    IF ~client THEN [threw |-> FALSE, value |-> TRUE]
    ELSE IF Raises(resp) THEN [threw |-> FALSE, value |-> TRUE]
    ELSE IF classificationOf(resp) = <<"ACTIVE">> THEN [threw |-> FALSE, value |-> TRUE]
    ELSE IF classificationOf(resp) = <<"DELETED">> THEN [threw |-> FALSE, value |-> FALSE]
    ELSE [threw |-> FALSE, value |-> TRUE]

\* ------------------------------------------------------- label-to-list router
\* A list id is named by the environment variable that holds it; an unset
\* variable is undefined, which is falsy like the initial null.
NoList == "null"

EnvValue(name, unset) == IF name \in unset THEN NoList ELSE name

\* A mutant: OFFER is routed like OTHER_REPLY.
targetListIdOfferMoves(label, unset) ==
    CASE label = "INITIAL_INTERVIEW" -> EnvValue("TRELLO_INITIAL_INTERVIEW_LIST_ID", unset)
      [] label = "CODING_CHALLENGE" -> EnvValue("TRELLO_CODING_INTERVIEW_LIST_ID", unset)
      [] label = "TECHNICAL_INTERVIEW" -> EnvValue("TRELLO_ARCHITECTURE_INTERVIEW_LIST_ID", unset)
      [] label = "HR_INTERVIEW" -> EnvValue("TRELLO_MANAGEMENT_AND_HR_LIST_ID", unset)
      [] label = "REJECTION" -> EnvValue("TRELLO_DROPPED_INITIAL_LIST_ID", unset)
      [] label = "OTHER_REPLY" -> EnvValue("TRELLO_ESTABLISHED_CONTACT_LIST_ID", unset)
      [] label = "OFFER" -> "TRELLO_ESTABLISHED_CONTACT_LIST_ID"
      [] OTHER -> NoList

\* Lines 253-265, the switch on classificationLabel.
targetListIdOf(label, unset) ==
    CASE label = "INITIAL_INTERVIEW" -> EnvValue("TRELLO_INITIAL_INTERVIEW_LIST_ID", unset)
      [] label = "CODING_CHALLENGE" -> EnvValue("TRELLO_CODING_INTERVIEW_LIST_ID", unset)
      [] label = "TECHNICAL_INTERVIEW" -> EnvValue("TRELLO_ARCHITECTURE_INTERVIEW_LIST_ID", unset)
      [] label = "HR_INTERVIEW" -> EnvValue("TRELLO_MANAGEMENT_AND_HR_LIST_ID", unset)
      [] label = "REJECTION" -> EnvValue("TRELLO_DROPPED_INITIAL_LIST_ID", unset)
      [] label = "OTHER_REPLY" -> EnvValue("TRELLO_ESTABLISHED_CONTACT_LIST_ID", unset)
      [] label = "OFFER" -> NoList
      [] OTHER -> NoList

\* att.isUpload === false && att.url, first hit; "" when there is none.
linkAttachmentUrl(attachments) ==
    LET hits == {i \in 1..Len(attachments) :
                    attachments[i].isUpload = FALSE /\ attachments[i].url # ""}
    IN  IF hits = {} THEN ""
        ELSE attachments[CHOOSE i \in hits : \A j \in hits : i <= j].url

\* ------------------------------------------------------------------ state
VARIABLES
    job,                \* which script runs: "reply" or "checker"
    unset,              \* the environment variables that are not set
    pc,                 \* position of main() in the script
    groq,               \* the module-level AI client handle is set
    trelloCards,        \* Reply Classifier: in-memory candidate cards
    allActiveCards,     \* Job Status Checker: the fetched cards
    messages,           \* ids of the unread messages, in list order
    idx,                \* position of the loop in messages / allActiveCards
    email,              \* the email being matched (matcher specification)
    aiResponse,         \* the AI service's behaviour for the current call
    matchingCard,       \* id of the matched card, NoCard for none
    matchMethod,        \* "Thread ID", "Domain" or ""
    classificationLabel,
    targetListId,
    isJobActive,        \* result of the last status check
    movedCardsLog,      \* Reply Classifier: <<card id, list>> per move
    cardsFailed,
    cardsMoved,
    deletedJobNames,
    cardList,           \* Trello: the list each fetched card is in
    unread,             \* Gmail: the messages that still carry UNREAD
    moveReqs,           \* per card: PUT /1/cards/<id> requests issued
    moveOks,            \* per card: PUT requests that succeeded
    markReqs,           \* per message: messages.modify requests issued
    matched,            \* per card: the messages it was the matching card of
    listed,             \* outcome of messages.list: "no", "ok" or "error"
    checked,            \* per card: AI status checks made
    attSeen,            \* per card: outcome of the attachment lookup
    trelloGets,         \* GET requests sent to Trello
    emailGets,          \* messages.get requests sent to Gmail
    notifications,      \* titles passed to sendNotification, in order
    exitCode            \* "running", 0 or 1

vars == <<job, unset, pc, groq, trelloCards, allActiveCards, messages, idx,
          email, aiResponse, matchingCard, matchMethod, classificationLabel,
          targetListId, isJobActive, movedCardsLog, cardsFailed, cardsMoved,
          deletedJobNames, cardList, unread, moveReqs, moveOks, markReqs,
          matched, listed, checked, attSeen, trelloGets, emailGets,
          notifications, exitCode>>

\* The per-iteration locals, the collections and the counters.
locals == <<email, aiResponse, matchingCard, matchMethod, classificationLabel,
            targetListId, isJobActive>>
memory == <<trelloCards, allActiveCards, messages, idx, movedCardsLog,
            cardsFailed, cardsMoved, deletedJobNames>>
world == <<cardList, unread>>
traffic == <<moveReqs, moveOks, markReqs, matched, listed, checked, attSeen,
             trelloGets, emailGets>>

NoEmail == [threadId |-> <<>>, from |-> <<>>, to |-> <<>>]
NoResponse == [kind |-> "none", content |-> <<>>]

\* ------------------------------------------------------------ input pools
\* MY_EMAIL when it is set.
MyEmail == <<"m", "@", "x">>

\* Card descriptions of a run.
DescPool ==
    { <<>>,
      <<"threadId:", " ", "1">>,
      <<"domain:", " ", "a", ".", "b">>,
      <<"threadId:", " ", "1", "\n", "Domain:", "[", "x", ".", "b", "]">> }

\* Emails a messages.get can return in a run.
RunEmails ==
    [threadId : {<<>>, <<"1">>},
     from : {<<"h", "@", "a", ".", "b">>, <<"h", "@", "x", ".", "b">>},
     to : {<<"M", "@", "X">>, <<"h", "@", "x">>}]

\* AI behaviours in a Reply Classifier run.
RunClassifyResponses ==
    {Throws, Answer(<<" ", "rejection", "\n">>), Answer(<<"OFFER">>),
     Answer(<<"hr_interview">>), Answer(<<"maybe">>)}

\* AI behaviours in a Job Status Checker run.
RunStatusResponses ==
    {Throws, Answer(<<"ACTIVE">>), Answer(<<"DELETED">>),
     Answer(<<"deleted", "\n">>), Answer(<<"maybe">>)}

\* Attachment lists a card can have.
AttachmentPool ==
    { <<>>,
      <<[isUpload |-> TRUE, url |-> "u1"]>>,
      <<[isUpload |-> FALSE, url |-> ""]>>,
      <<[isUpload |-> TRUE, url |-> "u1"], [isUpload |-> FALSE, url |-> "u2"]>> }

\* The environments of a run: everything set, or one variable unset.
ReplyEnvVars ==
    {"TRELLO_API_KEY", "TRELLO_TOKEN", "TRELLO_SENT_CV_LIST_ID", "MY_EMAIL",
     "GROQ_API_KEY", "NTFY_TOPIC", "TRELLO_DROPPED_INITIAL_LIST_ID"}

CheckerEnvVars ==
    {"TRELLO_API_KEY", "TRELLO_TOKEN", "GROQ_API_KEY", "TRELLO_SENT_CV_LIST_ID",
     "TRELLO_JOB_DELETED_FROM_WEBSITE_LIST_ID", "NTFY_TOPIC"}

EnvCases(j) ==
    {{}} \cup {{v} : v \in IF j = "reply" THEN ReplyEnvVars ELSE CheckerEnvVars}

\* Card lists with ids 1..n in fetch order.
CardLists(descs) ==
    UNION {[1..n -> descs] : n \in 0..MaxCards}

WithIds(ds) == [i \in 1..Len(ds) |-> [id |-> i, desc |-> ds[i]]]

\* ------------------------------------------------------------------- Init
BlankInputs ==
    /\ trelloCards = <<>> /\ email = NoEmail /\ aiResponse = NoResponse

BlankRest ==
    /\ allActiveCards = <<>> /\ messages = <<>> /\ listed = "no"
    /\ idx = 0
    /\ matchingCard = NoCard /\ matchMethod = ""
    /\ classificationLabel = "" /\ targetListId = NoList
    /\ isJobActive = TRUE
    /\ movedCardsLog = <<>> /\ cardsFailed = 0 /\ cardsMoved = 0
    /\ deletedJobNames = <<>>
    /\ cardList = <<>> /\ unread = {}
    /\ moveReqs = <<>> /\ moveOks = <<>> /\ markReqs = <<>>
    /\ matched = <<>> /\ checked = <<>> /\ attSeen = <<>>
    /\ trelloGets = 0 /\ emailGets = 0
    /\ notifications = <<>> /\ exitCode = "running"

Blank == BlankInputs /\ BlankRest

\* Lines 36-43: the Reply Classifier sets groq at load time when
\* GROQ_API_KEY is set; lines 341-343: the checker leaves it unset.
Init ==
    /\ job \in {"reply", "checker"}
    /\ unset \in EnvCases(job)
    /\ pc = "start"
    /\ groq = (job = "reply" /\ "GROQ_API_KEY" \notin unset)
    /\ Blank

\* ------------------------------------------------------------ notification
\* sendNotification(title, message): every call is recorded; the POST is
\* skipped when NTFY_TOPIC is unset, and its failure is only logged.
sendNotification(title) == notifications' = Append(notifications, title)

\* Normal completion of main(): the process ends with status 0.
Finish == pc' = "done" /\ exitCode' = 0

ResetLocals ==
    /\ email' = NoEmail /\ aiResponse' = NoResponse
    /\ matchingCard' = NoCard /\ matchMethod' = ""
    /\ classificationLabel' = "" /\ targetListId' = NoList
    /\ isJobActive' = TRUE

\* ------------------------------------------------------- Reply Classifier
\* Lines 146-156: authorize() resolves or rejects.
ReplyConnectGmail ==
    /\ job = "reply" /\ pc = "start"
    /\ \/ /\ pc' = "config"
          /\ UNCHANGED <<notifications, exitCode>>
       \/ /\ sendNotification("Trello Bot Error")
          /\ Finish
    /\ UNCHANGED <<job, unset, groq, locals, memory, world, traffic>>

\* Lines 157-164.
ReplyCheckConfig ==
    /\ job = "reply" /\ pc = "config"
    /\ IF \/ "TRELLO_API_KEY" \in unset
          \/ "TRELLO_TOKEN" \in unset
          \/ "TRELLO_SENT_CV_LIST_ID" \in unset
       THEN sendNotification("Trello Bot Error") /\ Finish
       ELSE pc' = "fetchCards" /\ UNCHANGED <<notifications, exitCode>>
    /\ UNCHANGED <<job, unset, groq, locals, memory, world, traffic>>

\* Lines 168-177: GET /1/lists/<id>/cards.
ReplyFetchCards ==
    /\ job = "reply" /\ pc = "fetchCards"
    /\ trelloGets' = trelloGets + 1
    /\ \/ \E ds \in CardLists(DescPool) :
             /\ trelloCards' = WithIds(ds)
             /\ cardList' = [c \in 1..Len(ds) |-> "TRELLO_SENT_CV_LIST_ID"]
             /\ moveReqs' = [c \in 1..Len(ds) |-> 0]
             /\ moveOks' = [c \in 1..Len(ds) |-> 0]
             /\ matched' = [c \in 1..Len(ds) |-> {}]
             /\ pc' = "listMessages"
             /\ UNCHANGED <<notifications, exitCode>>
       \/ /\ sendNotification("Trello Bot Error")
          /\ Finish
          /\ UNCHANGED <<trelloCards, cardList, moveReqs, moveOks, matched>>
    /\ UNCHANGED <<job, unset, groq, locals, allActiveCards, messages, idx,
                   movedCardsLog, cardsFailed, cardsMoved, deletedJobNames,
                   unread, markReqs, listed, checked, attSeen, emailGets>>

\* Where the for-of loop over messages goes after position i.
ReplyLoopPc(i, n) == IF i <= n THEN "getEmail" ELSE "summary"

\* A mutant: the empty inbox does not end the run.
EmptyInboxIgnored(n) == FALSE

\* Line 191: messages.length === 0
EmptyInbox(n) == n = 0

\* Lines 178-200: messages.list, and the return on an empty inbox.
ReplyListMessages ==
    /\ job = "reply" /\ pc = "listMessages"
    /\ \/ \E n \in 0..MaxEmails :
             /\ messages' = [i \in 1..n |-> i]
             /\ unread' = 1..n
             /\ markReqs' = [i \in 1..n |-> 0]
             /\ listed' = "ok"
             /\ IF EmptyInbox(n)
                THEN Finish /\ UNCHANGED idx
                ELSE pc' = ReplyLoopPc(1, n) /\ idx' = 1 /\ UNCHANGED exitCode
             /\ UNCHANGED notifications
       \/ /\ sendNotification("Trello Bot Error")
          /\ Finish
          /\ listed' = "error"
          /\ UNCHANGED <<messages, unread, markReqs, idx>>
    /\ UNCHANGED <<job, unset, groq, locals, trelloCards, allActiveCards,
                   movedCardsLog, cardsFailed, cardsMoved, deletedJobNames,
                   cardList, moveReqs, moveOks, matched, checked, attSeen,
                   trelloGets, emailGets>>

\* `continue`, or the end of the loop body: the next message, fresh locals.
ReplyNextEmail ==
    /\ idx' = idx + 1
    /\ pc' = ReplyLoopPc(idx + 1, Len(messages))
    /\ ResetLocals

\* Lines 202-250: messages.get, the To check, and the card match.
ReplyGetEmail ==
    /\ job = "reply" /\ pc = "getEmail"
    /\ emailGets' = emailGets + 1
    /\ \/ /\ ReplyNextEmail
          /\ UNCHANGED matched
       \/ \E e \in RunEmails :
             IF "MY_EMAIL" \in unset
             THEN \* line 222: yourEmailAddress.toLowerCase() on undefined
                  /\ pc' = "crashed"
                  /\ UNCHANGED <<idx, locals, matched>>
             ELSE IF ~includes(toLowerCase(e.to), toLowerCase(MyEmail))
             THEN ReplyNextEmail /\ UNCHANGED matched
             ELSE LET m == MatchCard(trelloCards, e.threadId, e.from)
                  IN  IF m.idx = 0
                      THEN ReplyNextEmail /\ UNCHANGED matched
                      ELSE /\ matchingCard' = trelloCards[m.idx].id
                           /\ matchMethod' = m.method
                           /\ matched' = [matched EXCEPT ![trelloCards[m.idx].id] =
                                              @ \cup {messages[idx]}]
                           /\ pc' = "classify"
                           /\ UNCHANGED <<idx, email, aiResponse, classificationLabel,
                                          targetListId, isJobActive>>
    /\ UNCHANGED <<job, unset, groq, trelloCards, allActiveCards, messages,
                   movedCardsLog, cardsFailed, cardsMoved, deletedJobNames,
                   world, moveReqs, moveOks, markReqs, listed, checked,
                   attSeen, trelloGets, notifications, exitCode>>

\* Line 252: await classifyEmailWithAI(subject, snippet).
ReplyClassify ==
    /\ job = "reply" /\ pc = "classify"
    /\ \E r \in RunClassifyResponses :
          LET res == classifyEmailWithAI(groq, r)
          IN  IF res.threw
              THEN pc' = "crashed" /\ UNCHANGED classificationLabel
              ELSE pc' = "route" /\ classificationLabel' = res.value
    /\ UNCHANGED <<job, unset, groq, memory, world, traffic, email, aiResponse,
                   matchingCard, matchMethod, targetListId, isJobActive,
                   notifications, exitCode>>

\* Lines 253-267 and 279-281: the switch, and the branch on targetListId.
ReplyRoute ==
    /\ job = "reply" /\ pc = "route"
    /\ IF targetListIdOf(classificationLabel, unset) # NoList
       THEN /\ targetListId' = targetListIdOf(classificationLabel, unset)
            /\ pc' = "moveCard"
            /\ UNCHANGED <<idx, email, aiResponse, matchingCard, matchMethod,
                           classificationLabel, isJobActive>>
       ELSE ReplyNextEmail
    /\ UNCHANGED <<job, unset, groq, trelloCards, allActiveCards, messages,
                   movedCardsLog, cardsFailed, cardsMoved, deletedJobNames,
                   world, traffic, notifications, exitCode>>

\* A mutant: markEmailAsRead is called after the try/catch, so a failed
\* move is followed by a mark-read request too.
ReplyMoveCardThenMarkAlways ==
    /\ job = "reply" /\ pc = "moveCard"
    /\ moveReqs' = [moveReqs EXCEPT ![matchingCard] = @ + 1]
    /\ \/ /\ moveOks' = [moveOks EXCEPT ![matchingCard] = @ + 1]
          /\ cardList' = [cardList EXCEPT ![matchingCard] = targetListId]
          /\ movedCardsLog' = Append(movedCardsLog,
                 [card |-> matchingCard, list |-> targetListId, msg |-> messages[idx]])
          /\ UNCHANGED cardsFailed
       \/ /\ cardsFailed' = cardsFailed + 1
          /\ UNCHANGED <<moveOks, cardList, movedCardsLog>>
    /\ pc' = "markRead"
    /\ UNCHANGED <<job, unset, groq, idx, locals, trelloCards, allActiveCards,
                   messages, cardsMoved, deletedJobNames, unread, markReqs,
                   matched, listed, checked, attSeen, trelloGets, emailGets,
                   notifications, exitCode>>

\* A mutant: the catch block logs the error and leaves the counter alone.
cardsFailedUncounted(n) == n

\* Line 277: cardsFailed++.
cardsFailedAfterError(n) == n + 1

\* Lines 268-272 and 275-278: PUT /1/cards/<id> {idList}.
ReplyMoveCard ==
    /\ job = "reply" /\ pc = "moveCard"
    /\ moveReqs' = [moveReqs EXCEPT ![matchingCard] = @ + 1]
    /\ \/ /\ moveOks' = [moveOks EXCEPT ![matchingCard] = @ + 1]
          /\ cardList' = [cardList EXCEPT ![matchingCard] = targetListId]
          /\ movedCardsLog' = Append(movedCardsLog,
                 [card |-> matchingCard, list |-> targetListId, msg |-> messages[idx]])
          /\ pc' = "markRead"
          /\ UNCHANGED <<idx, locals, cardsFailed>>
       \/ /\ cardsFailed' = cardsFailedAfterError(cardsFailed)
          /\ ReplyNextEmail
          /\ UNCHANGED <<moveOks, cardList, movedCardsLog>>
    /\ UNCHANGED <<job, unset, groq, trelloCards, allActiveCards, messages,
                   cardsMoved, deletedJobNames, unread, markReqs, matched,
                   listed, checked, attSeen, trelloGets, emailGets,
                   notifications, exitCode>>

\* A mutant: the moved card stays in the candidate list.
RemoveCardKeeps(cards, id) == cards

\* Line 274: trelloCards.filter(card => card.id !== matchingCard.id)
RemoveCard(cards, id) ==
    LET keep(card) == card.id # id IN SelectSeq(cards, keep)

\* Lines 273-274 (markEmailAsRead, lines 77-82): messages.modify removing
\* UNREAD, its failure only logged; then the candidate filter.
ReplyMarkRead ==
    /\ job = "reply" /\ pc = "markRead"
    /\ markReqs' = [markReqs EXCEPT ![messages[idx]] = @ + 1]
    /\ \/ unread' = unread \ {messages[idx]}
       \/ UNCHANGED unread
    /\ trelloCards' = RemoveCard(trelloCards, matchingCard)
    /\ ReplyNextEmail
    /\ UNCHANGED <<job, unset, groq, allActiveCards, messages, movedCardsLog,
                   cardsFailed, cardsMoved, deletedJobNames, cardList,
                   moveReqs, moveOks, matched, listed, checked, attSeen,
                   trelloGets, emailGets, notifications, exitCode>>

\* Lines 287-310: the summary notification, sent when messages.length > 0.
ReplySummary ==
    /\ job = "reply" /\ pc = "summary"
    /\ IF Len(messages) > 0
       THEN sendNotification(IF Len(movedCardsLog) > 0
                             THEN "Trello Bot: Card(s) Moved"
                             ELSE "Trello Bot: All Clear")
       ELSE UNCHANGED notifications
    /\ Finish
    /\ UNCHANGED <<job, unset, groq, locals, memory, world, traffic>>

\* Lines 314-320 and 528-534: main().catch.
TopLevelCatch ==
    /\ pc = "crashed"
    /\ sendNotification(IF job = "reply" THEN "Trello Bot: CRITICAL ERROR"
                        ELSE "Job Checker: CRITICAL ERROR")
    /\ exitCode' = 1
    /\ pc' = "exited"
    /\ UNCHANGED <<job, unset, groq, locals, memory, world, traffic>>

\* ----------------------------------------------------- Job Status Checker
\* The variables line 430 tests.
CheckerRequired ==
    {"TRELLO_API_KEY", "TRELLO_TOKEN", "GROQ_API_KEY",
     "TRELLO_JOB_DELETED_FROM_WEBSITE_LIST_ID", "TRELLO_SENT_CV_LIST_ID"}

\* Lines 429-438.
CheckerCheckConfig ==
    /\ job = "checker" /\ pc = "start"
    /\ IF CheckerRequired \cap unset # {}
       THEN sendNotification("Job Checker Error") /\ Finish /\ UNCHANGED groq
       ELSE /\ groq' = TRUE
            /\ pc' = "fetchCards"
            /\ UNCHANGED <<notifications, exitCode>>
    /\ UNCHANGED <<job, unset, locals, memory, world, traffic>>

CheckerLoopPc(i, n) == IF i <= n THEN "getAttachments" ELSE "summary"

\* Lines 449-462: GET /1/lists/<id>/cards and the return on an empty list.
CheckerFetchCards ==
    /\ job = "checker" /\ pc = "fetchCards"
    /\ trelloGets' = trelloGets + 1
    /\ \/ \E n \in 0..MaxCards :
             /\ allActiveCards' = [i \in 1..n |-> [id |-> i]]
             /\ cardList' = [c \in 1..n |-> "TRELLO_SENT_CV_LIST_ID"]
             /\ moveReqs' = [c \in 1..n |-> 0]
             /\ moveOks' = [c \in 1..n |-> 0]
             /\ checked' = [c \in 1..n |-> 0]
             /\ attSeen' = [c \in 1..n |-> "none"]
             /\ IF n = 0
                THEN Finish /\ UNCHANGED idx
                ELSE pc' = "getAttachments" /\ idx' = 1 /\ UNCHANGED exitCode
             /\ UNCHANGED notifications
       \/ /\ sendNotification("Job Checker Error")
          /\ Finish
          /\ UNCHANGED <<allActiveCards, cardList, moveReqs, moveOks, checked,
                         attSeen, idx>>
    /\ UNCHANGED <<job, unset, groq, locals, trelloCards, messages,
                   movedCardsLog, cardsFailed, cardsMoved, deletedJobNames,
                   unread, markReqs, matched, listed, emailGets>>

CheckerNextCard ==
    /\ idx' = idx + 1
    /\ pc' = CheckerLoopPc(idx + 1, Len(allActiveCards))
    /\ ResetLocals

\* Lines 465-485: GET /1/cards/<id>/attachments and the link lookup.
CheckerGetAttachments ==
    /\ job = "checker" /\ pc = "getAttachments"
    /\ trelloGets' = trelloGets + 1
    /\ \/ /\ attSeen' = [attSeen EXCEPT ![allActiveCards[idx].id] = "error"]
          /\ CheckerNextCard
       \/ \E atts \in AttachmentPool :
             IF linkAttachmentUrl(atts) = ""
             THEN /\ attSeen' = [attSeen EXCEPT ![allActiveCards[idx].id] = "nolink"]
                  /\ CheckerNextCard
             ELSE /\ attSeen' = [attSeen EXCEPT ![allActiveCards[idx].id] = "link"]
                  /\ pc' = "checkStatus"
                  /\ UNCHANGED <<idx, locals>>
    /\ UNCHANGED <<job, unset, groq, trelloCards, allActiveCards, messages,
                   movedCardsLog, cardsFailed, cardsMoved, deletedJobNames,
                   world, moveReqs, moveOks, markReqs, matched, listed,
                   checked, emailGets, notifications, exitCode>>

\* A mutant: the delay sits inside the if (!isJobActive) branch, so a card
\* found active is followed by the next card at once.
CheckerCheckStatusDelayOnlyAfterMove ==
    /\ job = "checker" /\ pc = "checkStatus"
    /\ checked' = [checked EXCEPT ![allActiveCards[idx].id] = @ + 1]
    /\ \E r \in RunStatusResponses :
          LET res == checkJobStatusWithAI(groq, r)
          IN  IF res.value
              THEN CheckerNextCard
              ELSE /\ aiResponse' = r
                   /\ isJobActive' = res.value
                   /\ pc' = "moveDeleted"
                   /\ UNCHANGED <<idx, email, matchingCard, matchMethod,
                                  classificationLabel, targetListId>>
    /\ UNCHANGED <<job, unset, groq, trelloCards, allActiveCards, messages,
                   movedCardsLog, cardsFailed, cardsMoved, deletedJobNames,
                   world, moveReqs, moveOks, markReqs, matched, listed,
                   attSeen, trelloGets, emailGets, notifications, exitCode>>

\* Lines 487-490 and 503-505: await checkJobStatusWithAI(jobUrl).
CheckerCheckStatus ==
    /\ job = "checker" /\ pc = "checkStatus"
    /\ checked' = [checked EXCEPT ![allActiveCards[idx].id] = @ + 1]
    /\ \E r \in RunStatusResponses :
          LET res == checkJobStatusWithAI(groq, r)
          IN  /\ aiResponse' = r
              /\ IF res.threw
                 THEN pc' = "crashed" /\ UNCHANGED isJobActive
                 ELSE /\ isJobActive' = res.value
                      /\ pc' = IF res.value THEN "delay" ELSE "moveDeleted"
    /\ UNCHANGED <<job, unset, groq, memory, world, moveReqs, moveOks,
                   markReqs, matched, listed, attSeen, trelloGets, emailGets, email,
                   matchingCard, matchMethod, classificationLabel,
                   targetListId, notifications, exitCode>>

\* Lines 491-502: PUT /1/cards/<id> {idList: deleted-jobs list}.
CheckerMoveCard ==
    /\ job = "checker" /\ pc = "moveDeleted"
    /\ moveReqs' = [moveReqs EXCEPT ![allActiveCards[idx].id] = @ + 1]
    /\ \/ /\ moveOks' = [moveOks EXCEPT ![allActiveCards[idx].id] = @ + 1]
          /\ cardList' = [cardList EXCEPT ![allActiveCards[idx].id] =
                              "TRELLO_JOB_DELETED_FROM_WEBSITE_LIST_ID"]
          /\ cardsMoved' = cardsMoved + 1
          /\ deletedJobNames' = Append(deletedJobNames, allActiveCards[idx].id)
       \/ UNCHANGED <<moveOks, cardList, cardsMoved, deletedJobNames>>
    /\ pc' = "delay"
    /\ UNCHANGED <<job, unset, groq, locals, trelloCards, allActiveCards,
                   messages, idx, movedCardsLog, cardsFailed, unread, markReqs,
                   matched, listed, checked, attSeen, trelloGets, emailGets,
                   notifications, exitCode>>

\* Lines 507-508: await delay(5000), then the next card.
CheckerDelay ==
    /\ job = "checker" /\ pc = "delay"
    /\ CheckerNextCard
    /\ UNCHANGED <<job, unset, groq, trelloCards, allActiveCards, messages,
                   movedCardsLog, cardsFailed, cardsMoved, deletedJobNames,
                   world, traffic, notifications, exitCode>>

\* Lines 511-524.
CheckerSummary ==
    /\ job = "checker" /\ pc = "summary"
    /\ sendNotification(IF cardsMoved > 0
                        THEN "Trello Job Checker: Job(s) Deleted"
                        ELSE "Trello Job Checker")
    /\ Finish
    /\ UNCHANGED <<job, unset, groq, locals, memory, world, traffic>>

\* ------------------------------------------------------------ specification
Next ==
    \/ ReplyConnectGmail
    \/ ReplyCheckConfig
    \/ ReplyFetchCards
    \/ ReplyListMessages
    \/ ReplyGetEmail
    \/ ReplyClassify
    \/ ReplyRoute
    \/ ReplyMoveCard
    \/ ReplyMarkRead
    \/ ReplySummary
    \/ TopLevelCatch
    \/ CheckerCheckConfig
    \/ CheckerFetchCards
    \/ CheckerGetAttachments
    \/ CheckerCheckStatus
    \/ CheckerMoveCard
    \/ CheckerDelay
    \/ CheckerSummary

Spec == Init /\ [][Next]_vars

\* ------------------------------------------- the card matcher on its own
\* Card descriptions the matcher is tried on.
MatchDescPool ==
    { <<>>,
      <<"threadId:", " ", "1">>,
      <<"threadId:", " ", "1", "2">>,
      <<"threadId:", "1">>,
      <<"threadid:", " ", "1">>,
      <<"domain:", " ", "a", ".", "b">>,
      <<"DOMAIN:", " ", "[", "A", ".", "B", "]">>,
      <<"domain:", "a", ".", "b">>,
      <<"Domain:", " ", "\n", "a", ".", "b">>,
      <<"domain:", " ", "a", "x", "b">>,
      <<"domain:", " ", "[", "a", ".", "b">>,
      <<"domain:", " ", "x", ".", "b">>,
      <<"threadId:", " ", "2", "\n", "domain:", " ", "a", ".", "b">> }

\* Emails the matcher is tried on: with and without a thread id, the sender
\* bare, in angle brackets, in capitals, without "@", with an empty domain.
MatchEmails ==
    [threadId : {<<>>, <<"1">>, <<"2">>},
     from : { <<"h", "@", "a", ".", "b">>,
              <<"H", " ", "<", "h", "@", "A", ".", "B", ">">>,
              <<" ", "h", "@", "x", ".", "b", " ">>,
              <<"h">>,
              <<"h", "@">> },
     to : {MyEmail}]

InitMatch ==
    /\ job = "reply" /\ unset = {} /\ pc = "match" /\ groq = TRUE
    /\ trelloCards \in {WithIds(ds) : ds \in CardLists(MatchDescPool)}
    /\ email \in MatchEmails
    /\ aiResponse = NoResponse
    /\ BlankRest

\* Lines 232-248 applied to the drawn candidate list and email.
MatchOnly ==
    /\ pc = "match"
    /\ LET m == MatchCard(trelloCards, email.threadId, email.from)
       IN  /\ matchingCard' = IF m.idx = 0 THEN NoCard ELSE trelloCards[m.idx].id
           /\ matchMethod' = m.method
    /\ pc' = "matched"
    /\ UNCHANGED <<job, unset, groq, memory, world, traffic, email, aiResponse,
                   classificationLabel, targetListId, isJobActive,
                   notifications, exitCode>>

SpecMatch == InitMatch /\ [][MatchOnly]_vars

\* --------------------------------------------- the AI functions on their own
ContentTokens ==
    {" ", "\n", "rejection", "REJECTION", "Offer", "OTHER_REPLY", "maybe",
     "ACTIVE", "deleted", "DELETED"}

AllResponses ==
    {Throws, NoChoices, NullContent}
    \cup {Answer(t) : t \in UNION {[1..n -> ContentTokens] : n \in 0..MaxContentLen}}

InitClassify ==
    /\ job \in {"reply", "checker"} /\ unset = {}
    /\ pc = IF job = "reply" THEN "classifyOnly" ELSE "statusOnly"
    /\ groq \in BOOLEAN
    /\ aiResponse \in AllResponses
    /\ trelloCards = <<>> /\ email = NoEmail
    /\ BlankRest

\* classifyEmailWithAI applied to the drawn client state and AI behaviour.
ClassifyOnly ==
    /\ pc = "classifyOnly"
    /\ LET res == classifyEmailWithAI(groq, aiResponse)
       IN  IF res.threw
           THEN pc' = "threw" /\ UNCHANGED classificationLabel
           ELSE pc' = "returned" /\ classificationLabel' = res.value
    /\ UNCHANGED <<job, unset, groq, memory, world, traffic, email, aiResponse,
                   matchingCard, matchMethod, targetListId, isJobActive,
                   notifications, exitCode>>

\* checkJobStatusWithAI applied to the drawn client state and AI behaviour.
StatusOnly ==
    /\ pc = "statusOnly"
    /\ LET res == checkJobStatusWithAI(groq, aiResponse)
       IN  IF res.threw
           THEN pc' = "threw" /\ UNCHANGED isJobActive
           ELSE pc' = "returned" /\ isJobActive' = res.value
    /\ UNCHANGED <<job, unset, groq, memory, world, traffic, email, aiResponse,
                   matchingCard, matchMethod, classificationLabel,
                   targetListId, notifications, exitCode>>

NextClassify == ClassifyOnly \/ StatusOnly

SpecClassify == InitClassify /\ [][NextClassify]_vars

\* ================================================================= claims
CardIds == DOMAIN cardList
Sent == "TRELLO_SENT_CV_LIST_ID"
Deleted == "TRELLO_JOB_DELETED_FROM_WEBSITE_LIST_ID"
InCandidates(c) == \E i \in 1..Len(trelloCards) : trelloCards[i].id = c
MaxOf(S) == CHOOSE x \in S : \A y \in S : y <= x
MovedAt(c) == {movedCardsLog[k].msg : k \in {j \in 1..Len(movedCardsLog) : movedCardsLog[j].card = c}}

\* C1: in a Reply Classifier run every card has at most one successful
\* list-move, and once the move of a card has succeeded and the loop body
\* has filtered the candidate list, the card is not in trelloCards.
C1_Inv ==
    job = "reply" =>
        \A c \in DOMAIN moveOks :
            /\ moveOks[c] <= 1
            /\ (moveOks[c] = 1 /\ ~(pc = "markRead" /\ matchingCard = c))
                   => ~InCandidates(c)

\* C1, second half: no later email of the run matches a card whose move has
\* succeeded.
C1_NoLaterMatch ==
    [][job = "reply" =>
          \A c \in DOMAIN moveOks :
              (c \in DOMAIN matched /\ moveOks[c] = 1) => matched'[c] = matched[c]]_vars

\* C1: both halves.
C1_MovedAtMostOnce == []C1_Inv /\ C1_NoLaterMatch

\* C1 witness: a card was moved at the first email and the run went on to
\* fetch a second email with the card gone from the candidates.
C1_Witness ==
    /\ job = "reply" /\ pc = "done" /\ emailGets = 2
    /\ \E c \in DOMAIN moveOks :
          moveOks[c] = 1 /\ matched[c] = {1} /\ ~InCandidates(c)

\* C2 as stated: no card is the matching card of two different emails of a
\* run.
C2_Original ==
    job = "reply" => \A c \in DOMAIN matched : Cardinality(matched[c]) <= 1

\* C2 amended: a card is the matching card of a further email only while
\* no move of it has succeeded; the email whose move succeeded is the last
\* email the card is matched to, and there is at most one such email.
C2_MatchedAgainOnlyIfNotMoved ==
    job = "reply" =>
        \A c \in DOMAIN matched :
            /\ Cardinality(MovedAt(c)) <= 1
            /\ MovedAt(c) \subseteq matched[c]
            /\ \A e \in MovedAt(c) : e = MaxOf(matched[c])

\* C2 witness: one card matched by both emails, its first match left it
\* unmoved and the second moved it.
C2_Witness ==
    /\ job = "reply"
    /\ \E c \in DOMAIN matched : matched[c] = {1, 2} /\ MovedAt(c) = {2}

\* C3: when the email has a thread id and some card's description contains
\* "threadId: <id>", the matched card is the first such card and the match
\* method is the thread id, whatever domain tags the cards carry.
ThreadTagged(c, tid) == includes(trelloCards[c].desc, <<"threadId:", " ">> \o tid)

C3_ThreadIdFirst ==
    (pc = "matched" /\ email.threadId # <<>>
        /\ \E i \in 1..Len(trelloCards) : ThreadTagged(i, email.threadId))
    => /\ matchingCard # NoCard
       /\ ThreadTagged(matchingCard, email.threadId)
       /\ \A j \in 1..(matchingCard - 1) : ~ThreadTagged(j, email.threadId)
       /\ matchMethod = "Thread ID"

\* C3 witness: the second card matched by thread id although the first
\* card carries the sender's domain tag.
C3_Witness ==
    /\ pc = "matched" /\ matchingCard = 2 /\ matchMethod = "Thread ID"
    /\ email.threadId = <<"1">>
    /\ email.from = <<"h", "@", "a", ".", "b">>
    /\ trelloCards[1].desc = <<"domain:", " ", "a", ".", "b">>

\* The sender domain of the drawn email, as a lower-case token sequence.
SenderDomain == domainOf(fromEmailOf(email.from))

NoThreadMatch ==
    \/ email.threadId = <<>>
    \/ \A i \in 1..Len(trelloCards) : ~ThreadTagged(i, email.threadId)

\* The description contains, in any letter case, "domain: D" or "domain: [D]"
\* with exactly one space after the colon.
StrictTag(desc, d) ==
    \/ includes(toLowerCase(desc), <<"domain:", " ">> \o d)
    \/ includes(toLowerCase(desc), <<"domain:", " ", "[">> \o d \o <<"]">>)

\* Runs of whitespace up to the length of a description.
WsRuns(n) == UNION {[1..k -> Whitespace] : k \in 0..n}

\* The description contains, in any letter case, "domain:", any run of
\* whitespace (also none), and then D or [D].
LooseTag(desc, d) ==
    \E ws \in WsRuns(Len(desc)) :
        \/ includes(toLowerCase(desc), <<"domain:">> \o ws \o d)
        \/ includes(toLowerCase(desc), <<"domain:">> \o ws \o <<"[">> \o d \o <<"]">>)

LeastOf(hits) ==
    IF hits = {} THEN NoCard ELSE CHOOSE i \in hits : \A j \in hits : i <= j

FirstStrictlyTagged(d) ==
    LeastOf({i \in 1..Len(trelloCards) : StrictTag(trelloCards[i].desc, d)})

FirstLooselyTagged(d) ==
    LeastOf({i \in 1..Len(trelloCards) : LooseTag(trelloCards[i].desc, d)})

\* C4 as stated: without a thread-id match, the email from domain D is
\* matched to the first card whose description contains "domain: D" or
\* "domain: [D]" in any case, and to no card when there is no such card.
C4_Original ==
    (pc = "matched" /\ SenderDomain # <<>> /\ NoThreadMatch)
    => matchingCard = FirstStrictlyTagged(SenderDomain)

\* C4 amended: the tag is "domain:" followed by any run of whitespace,
\* also none, and then D or [D], in any case.  Without a thread-id match a
\* card with the one-space tag makes the match succeed, the matched card is
\* the first card with the tag in the wider form, and there is no match
\* when no card has it.
C4_DomainTagAnyWhitespace ==
    (pc = "matched" /\ SenderDomain # <<>> /\ NoThreadMatch)
    => /\ matchingCard = FirstLooselyTagged(SenderDomain)
       /\ (FirstStrictlyTagged(SenderDomain) # NoCard => matchingCard # NoCard)
       /\ (matchingCard # NoCard => matchMethod = "Domain")

\* C4 witness: a domain match on the capitalised, bracketed tag of the
\* second card, from a sender written in angle brackets and capitals.
C4_Witness ==
    /\ pc = "matched" /\ matchingCard = 2 /\ matchMethod = "Domain"
    /\ email.from = <<"H", " ", "<", "h", "@", "A", ".", "B", ">">>
    /\ trelloCards[2].desc = <<"DOMAIN:", " ", "[", "A", ".", "B", "]">>
    /\ trelloCards[1].desc = <<"domain:", " ", "a", "x", "b">>

\* The answer of the AI service after trimming and upper-casing is one of
\* the seven categories.
AnswerInSet ==
    /\ aiResponse.kind = "content"
    /\ \E c \in categories : toUpperCase(trim(aiResponse.content)) = <<c>>

\* C5: classifyEmailWithAI never throws; it returns a category; it returns
\* the trimmed, upper-cased answer when the client is set and that answer
\* is a category, and OTHER_REPLY in every other case.
C5_ClassifyTotal ==
    job = "reply" =>
        /\ pc # "threw"
        /\ pc = "returned" =>
              /\ classificationLabel \in categories
              /\ (groq /\ AnswerInSet)
                    => <<classificationLabel>> = toUpperCase(trim(aiResponse.content))
              /\ ~(groq /\ AnswerInSet) => classificationLabel = "OTHER_REPLY"

\* C5 witness: a lower-case answer wrapped in whitespace returned as its
\* category.
C5_Witness ==
    /\ job = "reply" /\ pc = "returned" /\ groq
    /\ aiResponse = Answer(<<" ", "rejection", "\n">>)
    /\ classificationLabel = "REJECTION"

\* The environment variable that holds the destination list of a label,
\* "" for a label that has none.
SettingOf(label) ==
    CASE label = "INITIAL_INTERVIEW" -> "TRELLO_INITIAL_INTERVIEW_LIST_ID"
      [] label = "CODING_CHALLENGE" -> "TRELLO_CODING_INTERVIEW_LIST_ID"
      [] label = "TECHNICAL_INTERVIEW" -> "TRELLO_ARCHITECTURE_INTERVIEW_LIST_ID"
      [] label = "HR_INTERVIEW" -> "TRELLO_MANAGEMENT_AND_HR_LIST_ID"
      [] label = "REJECTION" -> "TRELLO_DROPPED_INITIAL_LIST_ID"
      [] label = "OTHER_REPLY" -> "TRELLO_ESTABLISHED_CONTACT_LIST_ID"
      [] OTHER -> ""

\* The label is OFFER, is unknown, or names a list whose setting is absent.
NoDestination(label) == SettingOf(label) = "" \/ SettingOf(label) \in unset

\* C6, the step: routing a label without destination issues no move
\* request, changes no list membership, keeps the candidate list, marks no
\* email read and goes on to the next email.
C6_RouteStep ==
    [][(job = "reply" /\ pc = "route" /\ NoDestination(classificationLabel))
          => /\ pc' \in {"getEmail", "summary"}
             /\ UNCHANGED <<cardList, trelloCards, unread, moveReqs, moveOks,
                            markReqs, movedCardsLog>>]_vars

\* C6, the states: a move or a mark-read is only ever pending for a label
\* that has a destination.
C6_Pending ==
    (job = "reply" /\ pc \in {"moveCard", "markRead"})
        => /\ ~NoDestination(classificationLabel)
           /\ targetListId = SettingOf(classificationLabel)

\* C6: a label without configured destination leaves the card, the
\* candidate list and the email untouched.
C6_NoDestinationNoAction == []C6_Pending /\ C6_RouteStep

\* C6 witness: the label REJECTION is being routed while its list setting
\* is absent.
C6_Witness ==
    /\ job = "reply" /\ pc = "route" /\ classificationLabel = "REJECTION"
    /\ "TRELLO_DROPPED_INITIAL_LIST_ID" \in unset
    /\ matchingCard # NoCard

\* The card of the current loop iteration of the Job Status Checker.
CurCard == allActiveCards[idx].id

DeletedExactly(r) == r = Answer(<<"DELETED">>)

DeletedNormalised(r) ==
    r.kind = "content" /\ toUpperCase(trim(r.content)) = <<"DELETED">>

IsDeleted(r, exact) == IF exact THEN DeletedExactly(r) ELSE DeletedNormalised(r)

\* C7 with the test for DELETED left open (exact text, or trimmed and
\* upper-cased): a move is requested and a card is in the deleted-jobs list
\* only after an answer that passes the test;
\* after any other behaviour of the AI service the check reports ACTIVE and
\* the card stays; a card without link attachment, or whose attachment
\* lookup failed, is never checked and never moved.
C7_Body(exact) ==
    job = "checker" =>
        /\ pc = "moveDeleted" => IsDeleted(aiResponse, exact)
        /\ (pc = "delay" /\ cardList[CurCard] # Sent) => IsDeleted(aiResponse, exact)
        /\ (pc \in {"moveDeleted", "delay"} /\ ~IsDeleted(aiResponse, exact))
              => isJobActive /\ cardList[CurCard] = Sent /\ moveReqs[CurCard] = 0
        /\ \A c \in DOMAIN cardList :
              /\ cardList[c] \in {Sent, Deleted}
              /\ attSeen[c] \in {"nolink", "error", "none"}
                    => checked[c] = 0 /\ moveReqs[c] = 0 /\ cardList[c] = Sent
              /\ moveReqs[c] > 0 => checked[c] > 0

\* C7 as stated: the answer must be exactly DELETED.
C7_Original == C7_Body(TRUE)

\* C7 amended: the answer, trimmed and upper-cased, must be DELETED.
C7_MovedOnlyIfDeleted == C7_Body(FALSE)

\* C7 witness: a card sits in the deleted-jobs list after the answer
\* "deleted" followed by a line break.
C7_Witness ==
    /\ job = "checker" /\ pc = "delay"
    /\ aiResponse = Answer(<<"deleted", "\n">>)
    /\ cardList[CurCard] = Deleted

\* C8: after messages.list returned no message the run is over with status
\* 0, the card-list fetch is the only Trello request, no email was fetched
\* or marked read, no card moved, and no notification was sent.
C8_EmptyInbox ==
    (job = "reply" /\ listed = "ok" /\ messages = <<>>)
    => /\ pc = "done" /\ exitCode = 0
       /\ trelloGets = 1 /\ emailGets = 0
       /\ notifications = <<>>
       /\ \A c \in DOMAIN cardList :
             cardList[c] = Sent /\ moveReqs[c] = 0 /\ matched[c] = {}
       /\ markReqs = <<>> /\ movedCardsLog = <<>>
       /\ Len(trelloCards) = Cardinality(DOMAIN cardList)

\* C8 witness: the inbox was empty while the list held two cards.
C8_Witness ==
    /\ job = "reply" /\ listed = "ok" /\ messages = <<>> /\ pc = "done"
    /\ Len(trelloCards) = 2

\* C9 as stated: at most one move request per card and one mark-read
\* request per email, in either job.
C9_Original ==
    /\ \A c \in DOMAIN moveReqs : moveReqs[c] <= 1
    /\ \A e \in DOMAIN markReqs : markReqs[e] <= 1

\* C9 amended: at most one mark-read request per email; at most one
\* successful move per card; in the Job Status Checker at most one move
\* request per card; in the Reply Classifier at most one move request per
\* email (each request of a card belongs to a different email matched to
\* it, and an email is matched to one card only), so a card gets a further
\* request only from a later email after a failed one.
C9_OneAttemptPerItem ==
    /\ \A e \in DOMAIN markReqs : markReqs[e] <= 1
    /\ \A c \in DOMAIN moveOks : moveOks[c] <= 1 /\ moveOks[c] <= moveReqs[c]
    /\ job = "checker" => \A c \in DOMAIN moveReqs : moveReqs[c] <= 1
    /\ job = "reply" =>
          /\ \A c \in DOMAIN moveReqs :
                /\ moveReqs[c] <= Cardinality(matched[c])
                /\ moveReqs[c] <= moveOks[c] + cardsFailed
          /\ \A c, d \in DOMAIN matched : c # d => matched[c] \cap matched[d] = {}

\* C9 witness: a card whose first move request failed received a second
\* one, which succeeded, from the next email.
C9_Witness ==
    /\ job = "reply"
    /\ \E c \in DOMAIN moveReqs :
          moveReqs[c] = 2 /\ moveOks[c] = 1 /\ matched[c] = {1, 2}

\* The settings each run requires.
ReplyRequired == {"TRELLO_API_KEY", "TRELLO_TOKEN", "TRELLO_SENT_CV_LIST_ID", "MY_EMAIL"}

RequiredOf(j) == IF j = "reply" THEN ReplyRequired ELSE CheckerRequired

\* C10: with a required setting absent the run issues no Trello request,
\* mutates no card and no email, never reaches the top-level failure
\* handler, and ends after exactly one call of the error notification.
C10_MissingConfigAborts ==
    RequiredOf(job) \cap unset # {}
    => /\ trelloGets = 0
       /\ \A c \in DOMAIN moveReqs : moveReqs[c] = 0
       /\ \A e \in DOMAIN markReqs : markReqs[e] = 0
       /\ pc \notin {"crashed", "exited"}
       /\ pc = "done" => Len(notifications) = 1

\* The step of a card-move request that fails.
MoveFails == pc \in {"moveCard", "moveDeleted"} /\ moveOks' = moveOks

\* The card the pending move request is for.
MoveTarget == IF job = "reply" THEN matchingCard ELSE CurCard

\* What a failed move leaves alone in both jobs: one request was sent for
\* the card, and no card, email, candidate list or result log changes.
FailedMoveKeepsAll ==
    /\ moveReqs' = [moveReqs EXCEPT ![MoveTarget] = @ + 1]
    /\ UNCHANGED <<world, trelloCards, allActiveCards, messages, movedCardsLog,
                   cardsMoved, deletedJobNames, markReqs, notifications>>

\* Where the loop stands after a failed move: the Reply Classifier is at
\* the next email (or at the summary after the last one), the Job Status
\* Checker at the delay that precedes the next card.
FailedMoveGoesOn ==
    /\ job = "reply" =>
          /\ idx' = idx + 1
          /\ pc' = IF idx < Len(messages) THEN "getEmail" ELSE "summary"
    /\ job = "checker" => idx' = idx /\ pc' = "delay"

\* The number of items the loop has fetched so far.
ItemsFetched == IF job = "reply" THEN emailGets ELSE trelloGets - 1

ItemCount == IF job = "reply" THEN Len(messages) ELSE Len(allActiveCards)

\* A run in which a move failed never reaches the top-level failure
\* handler; the loop index moves forward one item at a time, and the
\* summary is reached only after every item of the source list was fetched.
EveryItemProcessed ==
    /\ (\E c \in DOMAIN moveReqs : moveReqs[c] > moveOks[c])
          => /\ pc \notin {"crashed", "exited"}
             /\ pc = "done" => Len(notifications) = 1 /\ exitCode = 0
    /\ pc = "summary" => idx = ItemCount + 1 /\ ItemsFetched = ItemCount
    /\ pc \in {"getEmail", "classify", "route", "moveCard", "markRead",
               "getAttachments", "checkStatus", "moveDeleted", "delay"}
          => idx \in 1..ItemCount /\ ItemsFetched \in {idx - 1, idx}

\* C11 as stated: in both jobs a failed move adds one to the failure counter.
C11_Original ==
    [][MoveFails => cardsFailed' = cardsFailed + 1]_vars

\* C11: a failed card move adds one to cardsFailed in the Reply Classifier
\* and changes no counter in the Job Status Checker; in both jobs the
\* request is sent once in that step, nothing is rolled back, and the loop
\* goes on with the remaining items in source order up to the summary.
C11_FailedMoveGoesOn ==
    /\ []EveryItemProcessed
    /\ [][MoveFails =>
            /\ cardsFailed' = IF job = "reply" THEN cardsFailed + 1 ELSE cardsFailed
            /\ FailedMoveKeepsAll
            /\ FailedMoveGoesOn]_vars
    /\ [][idx' # idx /\ pc \notin {"start", "fetchCards", "listMessages"}
             => idx' = idx + 1]_vars

\* C11 witness: a Job Status Checker run whose move of the first card
\* failed finished with the summary after fetching the second card too; no
\* failure was counted.
C11_Witness ==
    /\ job = "checker" /\ pc = "done"
    /\ Len(allActiveCards) = 2
    /\ moveReqs[1] = 1 /\ moveOks[1] = 0
    /\ attSeen[2] # "none"
    /\ cardsFailed = 0
    /\ Len(notifications) = 1

\* The emails whose matched card was moved with success.
MovedMsgs == {movedCardsLog[k].msg : k \in 1..Len(movedCardsLog)}

\* The move of e's card succeeded and its mark-read request is the next step.
MarkPending(e) == pc = "markRead" /\ messages[idx] = e

\* Every entry of the result log is a successful move of the card that was
\* matched to the entry's email.
LogIsOfMatchedCard ==
    \A k \in 1..Len(movedCardsLog) :
       /\ movedCardsLog[k].msg \in matched[movedCardsLog[k].card]
       /\ moveOks[movedCardsLog[k].card] = 1

\* C12: in the Reply Classifier an email has a mark-read request exactly
\* when the move of its matched card succeeded, the request coming after
\* the move (it is the step that follows the move); an email with no
\* successful move (no match, no destination, failed move, failed fetch)
\* has no mark-read request and is still unread.
C12_MarkReadIffMoved ==
    job = "reply" =>
       /\ LogIsOfMatchedCard
       /\ \A e \in DOMAIN markReqs :
             /\ markReqs[e] >= 1 => e \in MovedMsgs
             /\ e \in MovedMsgs =>
                   \/ markReqs[e] = 1 /\ ~MarkPending(e)
                   \/ markReqs[e] = 0 /\ MarkPending(e)
             /\ e \notin MovedMsgs => markReqs[e] = 0 /\ e \in unread
       /\ pc = "markRead" => messages[idx] \in MovedMsgs

\* C12 witness: a finished run in which one email was marked read after
\* its card moved, and another, whose move request failed, has no
\* mark-read request and is still unread.
C12_Witness ==
    /\ job = "reply" /\ pc = "done"
    /\ cardsFailed = 1
    /\ \E e1, e2 \in DOMAIN markReqs :
          /\ markReqs[e1] = 1 /\ e1 \in MovedMsgs /\ e1 \notin unread
          /\ markReqs[e2] = 0 /\ e2 \notin MovedMsgs /\ e2 \in unread
          /\ \E c \in DOMAIN matched : e2 \in matched[c]

\* The loop of the Job Status Checker is at a card.
AtCard == job = "checker" /\ idx \in DOMAIN allActiveCards

\* Cards are taken in the order of the fetched list, one at a time: the
\* cards after the current one are untouched, the cards before it had
\* their attachment lookup, and no card has more than one status check.
CardsInListOrder ==
    job = "checker" =>
       /\ \A i \in DOMAIN allActiveCards : allActiveCards[i].id = i
       /\ \A c \in DOMAIN checked :
             /\ checked[c] <= 1
             /\ checked[c] = 1 => attSeen[c] = "link"
             /\ c > idx => checked[c] = 0 /\ attSeen[c] = "none"
             /\ c < idx => attSeen[c] # "none"
       /\ pc \in {"getAttachments", "checkStatus"} => checked[CurCard] = 0
       /\ pc \in {"moveDeleted", "delay"} => checked[CurCard] = 1

\* A status check is followed by the move request or the delay, the move
\* request by the delay whether it succeeded or not, and the loop leaves a
\* card that was checked only by the delay step.
DelayAfterCheck ==
    /\ (\E c \in DOMAIN checked : checked'[c] > checked[c]) =>
          /\ pc = "checkStatus"
          /\ pc' = IF isJobActive' THEN "delay" ELSE "moveDeleted"
    /\ pc = "moveDeleted" => pc' = "delay" /\ idx' = idx
    /\ AtCard /\ idx' # idx /\ checked[CurCard] = 1 => pc = "delay"

\* C13: the Job Status Checker takes the cards one at a time in list order,
\* checks each card at most once, and takes the delay step after every
\* status check before it goes to the next card, whatever the check
\* answered and whether or not the move request succeeded.
C13_DelayBetweenChecks ==
    []CardsInListOrder /\ [][DelayAfterCheck]_vars

\* C13 witness: the second card has just been checked, after the first
\* card was checked, found deleted, and its move request failed.
C13_Witness ==
    /\ job = "checker" /\ idx = 2
    /\ pc \in {"delay", "moveDeleted"}
    /\ checked[1] = 1 /\ checked[2] = 1
    /\ moveReqs[1] = 1 /\ moveOks[1] = 0

====
